---- MODULE Spec2Model ----
(***************************************************************************)
(* A model of suzieq's pandas engine for the interfaces table:             *)
(* InterfacesObj.get, _add_portmode, _add_vlanlist and _assert_interfaces  *)
(* (src/suzieq/engines/pandas/interfaces.py).                              *)
(*                                                                         *)
(* A DataFrame is a sequence of rows (records) plus the set of the derived *)
(* columns it carries.  Strings that the code splits on "." (interface     *)
(* names) are sequences of their "."-separated tokens: "eth0.0" is         *)
(* <<"eth0", "0">>, the empty string is <<"">>.  pandas' NaN is NaNStr,    *)
(* NaNInt or NaNName according to the type of the column.                  *)
(***************************************************************************)
EXTENDS Integers, Sequences, FiniteSets, TLC

VARIABLES
    pc,          \* position inside the running call
    op,          \* the call that runs: "get" or "assert"
    inp,         \* the tables the Table Accessor serves (one snapshot)
    args,        \* the keyword arguments of the call
    df,          \* get: the working frame; assert: if_df
    combined_df, \* assert: the joined frame
    ret          \* the frame the call returned

vars == <<pc, op, inp, args, df, combined_df, ret>>

(***************************************************************************)
(* Values                                                                  *)
(***************************************************************************)
NaNStr == "NaN"
NaNInt == -1000
NaNName == <<>>
EmptyName == <<"">>
DashName == <<"-">>

\* pandas merge treats two missing keys as equal; == on cell values does not
PyEq(a, b, nan) == a # nan /\ b # nan /\ a = b

\* an IPv4 interface address "a.b.c.d/plen": addr is the 32-bit address
Pow2(n) == 2 ^ n
IpNetwork(a) == [addr |-> a.addr - (a.addr % Pow2(32 - a.plen)), plen |-> a.plen]

(***************************************************************************)
(* Sequence helpers                                                        *)
(***************************************************************************)
RECURSIVE Concat(_)
Concat(ss) == IF ss = <<>> THEN <<>> ELSE Head(ss) \o Concat(Tail(ss))

Map(F(_), s) == [i \in 1..Len(s) |-> F(s[i])]

Range(s) == {s[i] : i \in 1..Len(s)}

RECURSIVE Sorted(_)
Sorted(S) ==
    IF S = {} THEN <<>>
    ELSE LET m == CHOOSE x \in S : \A y \in S : x <= y
         IN  <<m>> \o Sorted(S \ {m})

Frame(rows, cols) == [rows |-> rows, cols |-> cols]
EmptyFrame == Frame(<<>>, {})

SameIf(a, b) ==
    /\ a.namespace = b.namespace
    /\ a.hostname = b.hostname
    /\ a.ifname = b.ifname

(***************************************************************************)
(* _add_portmode                                                           *)
(***************************************************************************)
\* pm_df.empty: the address heuristic
FallbackPortmode(x) ==
    LET p4 == IF Len(x.ipAddressList) = 0 THEN "unknown" ELSE "routed"
    IN  IF Len(x.ip6AddressList) # 0 THEN "routed" ELSE p4

\* df.merge(pm_df, how='left', on=[namespace, hostname, ifname]) and the
\* fix-ups after it, for one row of df
ConfigPortmode(x, pm_list) ==
    LET hits == SelectSeq(pm_list, LAMBDA p : SameIf(p, x))
        Fix(pm, vlan_y) ==
            LET filled == IF pm = NaNStr THEN "routed" ELSE pm
                bridged == IF x.ifname = <<"bridge">> THEN "" ELSE filled
                admin == IF x.adminState # "up" THEN "" ELSE bridged
                vxlan == IF x.type = "vxlan" /\ admin = "routed"
                         THEN "trunk" ELSE admin
            IN  [portmode |-> vxlan,
                 vlan |-> IF vlan_y = NaNInt THEN x.vlan ELSE vlan_y] @@ x
    IN  IF hits = <<>> THEN <<Fix(NaNStr, NaNInt)>>
        ELSE Map(LAMBDA p : Fix(p.portmode, p.vlan), hits)

AddPortmode(d, pm_list) ==
    IF d.rows = <<>> THEN d
    ELSE IF pm_list = <<>>
    THEN Frame(Map(LAMBDA x : [portmode |-> FallbackPortmode(x)] @@ x, d.rows),
               d.cols \cup {"portmode"})
    ELSE Frame(Concat(Map(LAMBDA x : ConfigPortmode(x, pm_list), d.rows)),
               d.cols \cup {"portmode"})

(***************************************************************************)
(* _add_vlanlist                                                           *)
(***************************************************************************)
\* vlan_df.explode('interfaces').groupby([namespace, hostname, interfaces])
\*        ['vlan'].unique(), then apply(sorted)
VlanIfKeys(vlan_df) ==
    {[namespace |-> v.namespace, hostname |-> v.hostname, ifname |-> n] :
        <<v, n>> \in UNION {{<<vlan_df[i], m>> : m \in Range(vlan_df[i].interfaces)} :
                              i \in 1..Len(vlan_df)}}

VlanIfList(vlan_df, x) ==
    Sorted({vlan_df[i].vlan :
        i \in {j \in 1..Len(vlan_df) :
                  /\ vlan_df[j].namespace = x.namespace
                  /\ vlan_df[j].hostname = x.hostname
                  /\ x.ifname \in Range(vlan_df[j].interfaces)}})

AddVlanlist(d, vlan_df) ==
    IF d.rows = <<>> THEN d
    ELSE IF vlan_df = <<>> THEN d
    ELSE LET Merged(x) ==
                 IF \E k \in VlanIfKeys(vlan_df) : SameIf(k, x)
                 THEN VlanIfList(vlan_df, x) ELSE <<>>
             Cleared(x) ==
                 IF x.portmode \in {"access", "routed"} THEN <<>> ELSE Merged(x)
         IN  Frame(Map(LAMBDA x : [vlanList |-> Cleared(x)] @@ x, d.rows),
                   d.cols \cup {"vlanList"})

(***************************************************************************)
(* get                                                                     *)
(***************************************************************************)
\* the Table Accessor's retrieval, as get calls it (no ifname filter)
TableGet(tbl, a) ==
    IF a.type # {} /\ a.type # {"all"}
    THEN SelectSeq(tbl, LAMBDA x : x.type \in a.type)
    ELSE IF a.type # {"all"}
    THEN SelectSeq(tbl, LAMBDA x : x.type # "internal")
    ELSE tbl

\* build_query_str(state=..., portmode=...) as a row predicate
QueryMatch(x, a) ==
    /\ a.state # "" => x.state = a.state
    /\ a.portmode # {} => x.portmode \in a.portmode

GetEnriched(d, a, tables) ==
    LET star == "*" \in a.columns
        d1 == IF a.portmode # {} \/ "portmode" \in a.columns \/ star
              THEN AddPortmode(d, tables.pm_list) ELSE d
        d2 == IF a.vlan # {} \/ "vlanList" \in a.columns \/ star
              THEN AddVlanlist(IF "portmode" \notin a.columns /\ ~star
                               THEN AddPortmode(d1, tables.pm_list) ELSE d1,
                               tables.vlan)
              ELSE d1
    IN  d2

GetQueried(d, a) ==
    IF a.state # "" \/ a.portmode # {}
    THEN Frame(SelectSeq(d.rows, LAMBDA x : QueryMatch(x, a)), d.cols)
    ELSE d

\* df.explode('vlanList').query('vlan == [..] or vlanList == [..]')
VlanExploded(d, vlans) ==
    SelectSeq(d.rows, LAMBDA x :
        \/ x.vlan \in vlans
        \/ \E i \in 1..Len(x.vlanList) : x.vlanList[i] \in vlans)

VlanFiltered(d, vlans) ==
    LET df_exp == Range(VlanExploded(d, vlans))
    IN  Frame(SelectSeq(d.rows, LAMBDA x :
                  /\ x.namespace \in {e.namespace : e \in df_exp}
                  /\ x.hostname \in {e.hostname : e \in df_exp}
                  /\ x.ifname \in {e.ifname : e \in df_exp}),
              d.cols)

GetFinal(d, a) ==
    IF a.type = {}
    THEN Frame(SelectSeq(d.rows, LAMBDA x : x.type # "internal"), d.cols)
    ELSE d

\* explode of a column the frame does not have raises KeyError
GetRaises(d, a) == a.vlan # {} /\ "vlanList" \notin d.cols

\* the whole of get, for a caller that does not raise
Get(tables, a) ==
    LET d0 == Frame(TableGet(tables.ifs, a), {})
        d3 == GetQueried(GetEnriched(d0, a, tables), a)
        d4 == IF a.vlan # {} THEN VlanFiltered(d3, a.vlan) ELSE d3
    IN  IF d0.rows = <<>> THEN d0 ELSE GetFinal(d4, a)

(***************************************************************************)
(* _assert_interfaces: subinterface normalisation                          *)
(***************************************************************************)
DefaultIftype == {"ethernet", "bond_slave", "subinterface", "vlan", "bond"}

\* x['ifname'].split('.')[0] if x.type in ['subinterface', 'vlan']
Pifname(x) ==
    IF x.type \in {"subinterface", "vlan"} THEN <<x.ifname[1]>> ELSE x.ifname

\* x['ifname'].endswith('.0')
EndsWithDotZero(n) == Len(n) >= 2 /\ n[Len(n)] = "0"

DelIflist(rows) ==
    {IF EndsWithDotZero(x.ifname) THEN Pifname(x) ELSE EmptyName : x \in Range(rows)}

\* KeptRow without the query: the bare parent rows stay
KeptRowAll(x, del_iflist) == TRUE

\* query('~ifname.isin(del_iflist)'), one row
KeptRow(x, del_iflist) == x.ifname \notin del_iflist

Normalized(rows) ==
    LET del_iflist == DelIflist(rows)
        typed == [i \in 1..Len(rows) |->
                    [pifname |-> Pifname(rows[i]),
                     index |-> i - 1,
                     type |-> IF EndsWithDotZero(rows[i].ifname)
                              THEN "ethernet" ELSE rows[i].type] @@ rows[i]]
        kept == SelectSeq(typed, LAMBDA x : KeptRow(x, del_iflist))
    IN  Map(LAMBDA x : [ifname |-> IF EndsWithDotZero(x.ifname)
                                   THEN x.pifname ELSE x.ifname] @@ x, kept)

WithVlanList(d) ==
    IF "vlanList" \in d.cols THEN d
    ELSE Frame(Map(LAMBDA x : [vlanList |-> <<>>] @@ x, d.rows),
               d.cols \cup {"vlanList"})

MlagPeerlinks(mlag_df) ==
    {<<m.namespace, m.hostname, m.peerLink>> : m \in Range(mlag_df)}

LldpDf(lldp) == SelectSeq(lldp, LAMBDA l : l.peerIfname # DashName)

(***************************************************************************)
(* _assert_interfaces: the joins                                           *)
(***************************************************************************)
\* the interface columns of a row that only the right side of a merge filled
NaNRow(ns, host) ==
    [namespace |-> ns, hostname |-> host, ifname |-> NaNName, type |-> NaNStr,
     state |-> NaNStr, adminState |-> NaNStr, mtu |-> NaNInt, speed |-> NaNInt,
     master |-> NaNStr, vlan |-> NaNInt, ipAddressList |-> <<>>,
     ip6AddressList |-> <<>>, reason |-> NaNStr, portmode |-> NaNStr,
     vlanList |-> <<>>, pifname |-> NaNName, index |-> NaNInt]

LldpMatch(x, l) ==
    /\ x.namespace = l.namespace
    /\ x.hostname = l.hostname
    /\ x.pifname = l.ifname

\* pd.merge(if_df, lldp_df, left_on=[namespace, hostname, pifname],
\*          right_on=[namespace, hostname, ifname], how="outer")
LldpJoin(rows, lldp_df) ==
    LET Left(x) ==
            LET hits == SelectSeq(lldp_df, LAMBDA l : LldpMatch(x, l))
            IN  IF hits = <<>>
                THEN <<[peerHostname |-> NaNStr, peerIfname |-> NaNName] @@ x>>
                ELSE Map(LAMBDA l : [peerHostname |-> l.peerHostname,
                                     peerIfname |-> l.peerIfname] @@ x, hits)
        rightOnly == SelectSeq(lldp_df,
                         LAMBDA l : \A i \in 1..Len(rows) : ~LldpMatch(rows[i], l))
    IN  Concat(Map(Left, rows))
        \o Map(LAMBDA l : [peerHostname |-> l.peerHostname,
                           peerIfname |-> l.peerIfname]
                          @@ NaNRow(l.namespace, l.hostname), rightOnly)

IsSubif(x) == x.type \in {"subinterface", "vlan"}

\* the Peer-suffixed columns a right row r brings; the subinterface merge has
\* vlan among its keys, so it brings no vlanPeer
PeerCols(r, withVlan) ==
    [indexPeer |-> r.index, mtuPeer |-> r.mtu, speedPeer |-> r.speed,
     typePeer |-> r.type, portmodePeer |-> r.portmode,
     vlanPeer |-> IF withVlan THEN r.vlan ELSE NaNInt,
     ipAddressListPeer |-> [nan |-> FALSE, val |-> r.ipAddressList],
     vlanListPeer |-> [nan |-> FALSE, val |-> r.vlanList]]

NoPeerCols ==
    [indexPeer |-> NaNInt, mtuPeer |-> NaNInt, speedPeer |-> NaNInt,
     typePeer |-> NaNStr, portmodePeer |-> NaNStr, vlanPeer |-> NaNInt,
     ipAddressListPeer |-> [nan |-> TRUE, val |-> <<>>],
     vlanListPeer |-> [nan |-> TRUE, val |-> <<>>]]

NonsubifMatch(l, r) ==
    /\ l.namespace = r.namespace
    /\ l.peerHostname = r.hostname
    /\ l.peerIfname = r.ifname

SubifMatch(l, r) ==
    /\ l.namespace = r.namespace
    /\ l.peerHostname = r.hostname
    /\ l.peerIfname = r.pifname
    /\ l.vlan = r.vlan

\* idf.merge(idf, left_on=..., right_on=..., how="outer", suffixes=["", "Peer"])
PeerJoin(idf, Match(_, _), withVlan) ==
    LET Left(l) ==
            LET hits == SelectSeq(idf, LAMBDA r : Match(l, r))
            IN  IF hits = <<>> THEN <<NoPeerCols @@ l>>
                ELSE Map(LAMBDA r : PeerCols(r, withVlan) @@ l, hits)
        rightOnly == SelectSeq(idf,
                         LAMBDA r : \A i \in 1..Len(idf) : ~Match(idf[i], r))
    IN  Concat(Map(Left, idf))
        \o Map(LAMBDA r : PeerCols(r, withVlan)
                          @@ [peerHostname |-> NaNStr, peerIfname |-> NaNName]
                          @@ NaNRow(r.namespace, NaNStr), rightOnly)

\* pd.concat([idf_subif, idf_nonsubif]).dropna(subset=['hostname', 'ifname'])
Concatenated(rows, lldp_df) ==
    LET idf == LldpJoin(rows, lldp_df)
        idf_nonsubif == SelectSeq(idf, LAMBDA x : ~IsSubif(x))
        idf_subif == SelectSeq(idf, LAMBDA x : IsSubif(x))
        both == PeerJoin(idf_subif, SubifMatch, FALSE)
                \o PeerJoin(idf_nonsubif, NonsubifMatch, TRUE)
    IN  SelectSeq(both, LAMBDA x : x.hostname # NaNStr /\ x.ifname # NaNName)

\* drop_duplicates(subset=[namespace, hostname, ifname]) keeps one row of each
\* identity: the one that comes first in the merge's output order
FirstOfIdentity(c, i) == \A j \in 1..(i - 1) : ~SameIf(c[j], c[i])

\* Deduplicated without drop_duplicates
DeduplicatedNone(c) == c

Deduplicated(c) ==
    LET keep == {i \in 1..Len(c) : FirstOfIdentity(c, i)}
        RECURSIVE Pick(_)
        Pick(i) == IF i > Len(c) THEN <<>>
                   ELSE (IF i \in keep THEN <<c[i]>> ELSE <<>>) \o Pick(i + 1)
    IN  Pick(1)

(***************************************************************************)
(* _assert_interfaces: the rules                                           *)
(***************************************************************************)
\* the columns read from storage hold np.ndarray cells; vlanList is built by
\* _add_vlanlist (sorted(...), [[]]) or by the default above and holds lists
IsNdarrayColumn(col) == col \in {"ipAddressList", "ip6AddressList"}

\* combined_df[fld].apply(lambda x: x if isinstance(x, np.ndarray) else [])
PeerList(cell, col) ==
    IF ~cell.nan /\ IsNdarrayColumn(col) THEN cell.val ELSE <<>>

FillNa(v, nan, dflt) == IF v = nan THEN dflt ELSE v

Filled(x) ==
    [mtuPeer |-> FillNa(x.mtuPeer, NaNInt, 0),
     speedPeer |-> FillNa(x.speedPeer, NaNInt, 0),
     typePeer |-> FillNa(x.typePeer, NaNStr, ""),
     peerHostname |-> FillNa(x.peerHostname, NaNStr, ""),
     peerIfname |-> FillNa(x.peerIfname, NaNName, EmptyName),
     indexPeer |-> FillNa(x.indexPeer, NaNInt, -1),
     ipAddressListPeer |-> PeerList(x.ipAddressListPeer, "ipAddressList"),
     vlanListPeer |-> PeerList(x.vlanListPeer, "vlanList")] @@ x

KnownHosts(c) == {<<x.namespace, x.hostname>> : x \in Range(c)}

SkipIfCheck(x) == x.master = "bridge" \/ x.type \in {"bond_slave", "vlan"}

IndexPeer(x, known_hosts) ==
    IF <<x.namespace, x.hostname>> \in known_hosts THEN x.indexPeer ELSE -2

StateReason(x) ==
    IF x.adminState = "down" \/ (x.adminState = "up" /\ x.state = "up")
    THEN <<>>
    ELSE <<IF x.reason # "" THEN x.reason ELSE "Interface Down">>

NoPeerReason(x) ==
    IF x.indexPeer = -1 /\ ~x.skipIfCheck THEN <<"No Peer Found">> ELSE <<>>

UnpolledReason(x) ==
    IF x.indexPeer = -2 /\ ~x.skipIfCheck THEN <<"Unpolled Peer">> ELSE <<>>

\* _check_field
CheckField(x, a, b, reason) ==
    IF x.skipIfCheck \/ x.indexPeer < 0 THEN <<>>
    ELSE IF a = b THEN <<>> ELSE reason

\* t.startswith('ether'), over the interface types of the schema
StartsWithEther(t) == t = "ethernet"

TypeReason(x) ==
    IF \/ x.indexPeer < 0
       \/ x.type = x.typePeer
       \/ (x.type = "vlan" /\ x.typePeer = "subinterface")
       \/ (StartsWithEther(x.type) /\ StartsWithEther(x.typePeer))
    THEN <<>> ELSE <<"type mismatch">>

PortmodeReason(x) ==
    IF x.indexPeer < 0 \/ x.portmode = x.portmodePeer
    THEN <<>> ELSE <<"portMode Mismatch">>

\* _check_ipaddr
CheckIpaddr(x, l1, l2, reason) ==
    IF x.skipIfCheck \/ x.indexPeer < 0 THEN <<>>
    ELSE IF Len(l1) # Len(l2) THEN reason
    ELSE IF Len(l1) # 0
    THEN (IF l1[1].plen = 32 \/ IpNetwork(l1[1]) = IpNetwork(l2[1])
          THEN <<>> ELSE reason)
    ELSE <<>>

PvidReason(x) ==
    IF \/ (/\ x.portmode \in {"access", "trunk"}
           /\ (x.indexPeer < 0 \/ PyEq(x.vlan, x.vlanPeer, NaNInt)))
       \/ x.portmode \in {"routed", "unknown"}
    THEN <<>> ELSE <<"pvid Mismatch">>

VlanSetReason(x, mlag_peerlinks) ==
    LET key == <<x.namespace, x.hostname, x.master>>
    IN  IF \/ (/\ x.indexPeer > 0
               /\ key \notin mlag_peerlinks
               /\ Range(x.vlanList) = Range(x.vlanListPeer))
           \/ x.indexPeer < 0
           \/ key \in mlag_peerlinks
        THEN <<>> ELSE <<"VLAN set mismatch">>

\* the reason list of one filled row
AssertReason(x0, known_hosts, mlag_peerlinks) ==
    LET x == [skipIfCheck |-> SkipIfCheck(x0),
              indexPeer |-> IndexPeer(x0, known_hosts)] @@ x0
    IN  StateReason(x)
        \o NoPeerReason(x)
        \o UnpolledReason(x)
        \o CheckField(x, x.mtu, x.mtuPeer, <<"MTU mismatch">>)
        \o CheckField(x, x.speed, x.speedPeer, <<"Speed mismatch">>)
        \o TypeReason(x)
        \o PortmodeReason(x)
        \o CheckIpaddr(x, x.ipAddressList, x.ipAddressListPeer,
                       <<"IP address mismatch">>)
        \o PvidReason(x)
        \o VlanSetReason(x, mlag_peerlinks)

Ruled(c, mlag_peerlinks) ==
    LET f == Map(Filled, c)
        known_hosts == KnownHosts(f)
    IN  Map(LAMBDA x : [skipIfCheck |-> SkipIfCheck(x),
                        indexPeer |-> IndexPeer(x, known_hosts),
                        assertReason |-> AssertReason(x, known_hosts,
                                                      mlag_peerlinks)] @@ x, f)

(***************************************************************************)
(* _assert_interfaces: the verdict                                         *)
(***************************************************************************)
\* Verdict that forgives "No Peer Found" wherever it stands in the list
VerdictAnyNoPeer(x, ignore_missing_peer) ==
    IF ignore_missing_peer
    THEN (IF Len(x.assertReason) # 0
             /\ "No Peer Found" \notin Range(x.assertReason)
          THEN "fail" ELSE "pass")
    ELSE (IF Len(x.assertReason) # 0 THEN "fail" ELSE "pass")

Verdict(x, ignore_missing_peer) ==
    IF ignore_missing_peer
    THEN (IF Len(x.assertReason) # 0 /\ x.assertReason[1] # "No Peer Found"
          THEN "fail" ELSE "pass")
    ELSE (IF Len(x.assertReason) # 0 THEN "fail" ELSE "pass")

\* a cell of the returned assertReason column: a list of reasons, or a string
ReasonList(l) == [str |-> "", list |-> l]
ReasonStr(s) == [str |-> s, list |-> <<>>]

\* Rendered without the placeholder for an empty list
RenderedNoDash(l) == ReasonList(l)

Rendered(l) == IF Len(l) # 0 THEN ReasonList(l) ELSE ReasonStr("-")

ResultFiltered(c, result) ==
    IF result = "fail" THEN SelectSeq(c, LAMBDA x : x.result = "fail")
    ELSE IF result = "pass" THEN SelectSeq(c, LAMBDA x : x.result = "pass")
    ELSE c

Verdicts(c, a) ==
    LET judged == Map(LAMBDA x : [result |-> Verdict(x, a.ignore_missing_peer)]
                                 @@ x, c)
    IN  Frame(Map(LAMBDA x : [assertReason |-> Rendered(x.assertReason)] @@ x,
                  ResultFiltered(judged, a.result)),
              {"result", "assertReason"})

\* the early returns: if_df, marked as failed unless only passes were asked
NoData(d, a, why) ==
    IF a.result # "pass"
    THEN Frame(Map(LAMBDA x : [result |-> "fail",
                               assertReason |-> ReasonStr(why)] @@ x, d.rows),
               d.cols \cup {"result", "assertReason"})
    ELSE d

\* combined_df[['namespace', 'hostname', 'ifname', 'state', 'peerHostname',
\*              'peerIfname', 'result', 'assertReason', 'timestamp']]
Projected(x) ==
    [namespace |-> x.namespace, hostname |-> x.hostname, ifname |-> x.ifname,
     state |-> x.state, peerHostname |-> x.peerHostname,
     peerIfname |-> x.peerIfname, result |-> x.result,
     assertReason |-> x.assertReason]

(***************************************************************************)
(* The calls, step by step                                                 *)
(***************************************************************************)
\* get, lines 48-56
GetFetch ==
    /\ op = "get" /\ pc = "start"
    /\ df' = Frame(TableGet(inp.ifs, args), {})
    /\ IF df'.rows = <<>>
       THEN pc' = "done" /\ ret' = df'
       ELSE pc' = "portmode" /\ UNCHANGED ret
    /\ UNCHANGED <<op, inp, args, combined_df>>

PortmodeWanted(a) ==
    a.portmode # {} \/ "portmode" \in a.columns \/ "*" \in a.columns

VlanlistWanted(a) ==
    a.vlan # {} \/ "vlanList" \in a.columns \/ "*" \in a.columns

\* get, lines 58-63
GetPortmode ==
    /\ op = "get" /\ pc = "portmode"
    /\ df' = IF PortmodeWanted(args) THEN AddPortmode(df, inp.pm_list) ELSE df
    /\ pc' = "vlanlist"
    /\ UNCHANGED <<op, inp, args, combined_df, ret>>

\* get, lines 65-72
GetVlanlist ==
    /\ op = "get" /\ pc = "vlanlist"
    /\ df' = IF VlanlistWanted(args)
             THEN AddVlanlist(IF "portmode" \notin args.columns
                                 /\ "*" \notin args.columns
                              THEN AddPortmode(df, inp.pm_list) ELSE df,
                              inp.vlan)
             ELSE df
    /\ pc' = "query"
    /\ UNCHANGED <<op, inp, args, combined_df, ret>>

\* get, lines 74-78
GetQuery ==
    /\ op = "get" /\ pc = "query"
    /\ df' = GetQueried(df, args)
    /\ pc' = "vlanfilter"
    /\ UNCHANGED <<op, inp, args, combined_df, ret>>

\* get, lines 80-96
GetVlanFilter ==
    /\ op = "get" /\ pc = "vlanfilter"
    /\ IF GetRaises(df, args)
       THEN pc' = "raised" /\ UNCHANGED ret
       ELSE /\ ret' = GetFinal(IF args.vlan # {}
                               THEN VlanFiltered(df, args.vlan) ELSE df, args)
            /\ pc' = "done"
    /\ UNCHANGED <<op, inp, args, df, combined_df>>

\* the keyword arguments _assert_interfaces gives get, lines 240-248
AssertGetArgs(a) ==
    [columns |-> {"*"},
     type |-> IF a.type = {} THEN DefaultIftype ELSE a.type,
     state |-> IF a.state = "" THEN "up" ELSE a.state,
     vlan |-> {}, portmode |-> {}]

\* _assert_interfaces, lines 240-254
AssertGet ==
    /\ op = "assert" /\ pc = "start"
    /\ df' = Get(inp, AssertGetArgs(args))
    /\ IF df'.rows = <<>>
       THEN pc' = "done" /\ ret' = NoData(df', args, "No data")
       ELSE pc' = "normalize" /\ UNCHANGED ret
    /\ UNCHANGED <<op, inp, args, combined_df>>

\* _assert_interfaces, lines 256-300
AssertNormalize ==
    /\ op = "assert" /\ pc = "normalize"
    /\ df' = WithVlanList(Frame(Normalized(df.rows),
                                df.cols \cup {"pifname", "index"}))
    /\ pc' = "join"
    /\ UNCHANGED <<op, inp, args, combined_df, ret>>

\* _assert_interfaces, lines 302-359
AssertJoin ==
    /\ op = "assert" /\ pc = "join"
    /\ LET lldp_df == LldpDf(inp.lldp)
           c == Deduplicated(Concatenated(df.rows, lldp_df))
       IN  IF lldp_df = <<>> \/ c = <<>>
           THEN /\ ret' = NoData(df, args, "No LLDP peering info")
                /\ pc' = "done"
                /\ UNCHANGED combined_df
           ELSE /\ combined_df' = c
                /\ pc' = "rules"
                /\ UNCHANGED ret
    /\ UNCHANGED <<op, inp, args, df>>

\* _assert_interfaces, lines 361-450
AssertRules ==
    /\ op = "assert" /\ pc = "rules"
    /\ combined_df' = Ruled(combined_df, MlagPeerlinks(inp.mlag))
    /\ pc' = "verdict"
    /\ UNCHANGED <<op, inp, args, df, ret>>

\* _assert_interfaces, lines 452-473
AssertVerdict ==
    /\ op = "assert" /\ pc = "verdict"
    /\ LET v == Verdicts(combined_df, args)
       IN  ret' = Frame(Map(Projected, v.rows), v.cols)
    /\ pc' = "done"
    /\ UNCHANGED <<op, inp, args, df, combined_df>>

(***************************************************************************)
(* The snapshots and calls that are explored                               *)
(***************************************************************************)
MaxRows == 3    \* rows of the interfaces table
MaxUnit == 1    \* highest subinterface unit: eth0.0 .. eth0.MaxUnit

Ns == "ns1"
UnitToken(u) == IF u = 0 THEN "0" ELSE IF u = 1 THEN "1" ELSE IF u = 2 THEN "2" ELSE "3"
Eth0 == <<"eth0">>
Eth1 == <<"eth1">>
IfNames == <<Eth0>> \o [u \in 1..(MaxUnit + 1) |-> <<"eth0", UnitToken(u - 1)>>]
           \o <<Eth1>>

Id(host, name) == [namespace |-> Ns, hostname |-> host, ifname |-> name]

\* every (hostname, ifname) of the polled devices h1 and h2, in table order
Identities ==
    Map(LAMBDA n : Id("h1", n), IfNames) \o Map(LAMBDA n : Id("h2", n), IfNames)

\* an interface record as stored: up, untagged, no addresses
BaseRow(id) ==
    [namespace |-> id.namespace, hostname |-> id.hostname, ifname |-> id.ifname,
     type |-> IF Len(id.ifname) > 1 THEN "subinterface" ELSE "ethernet",
     state |-> "up", adminState |-> "up", mtu |-> 1500, speed |-> 1000,
     master |-> "", vlan |-> 1, ipAddressList |-> <<>>,
     ip6AddressList |-> <<>>, reason |-> ""]

Ip(addr, plen) == [addr |-> addr, plen |-> plen]
Ip_10_0_0_1 == Ip(167772161, 24)
Ip_10_0_0_2 == Ip(167772162, 24)
Ip_10_0_1_1 == Ip(167772417, 24)
Ip_10_0_0_5 == Ip(167772165, 32)

RECURSIVE Reverse(_)
Reverse(s) == IF s = <<>> THEN <<>> ELSE Reverse(Tail(s)) \o <<Head(s)>>

\* the rows of u at the positions S, in table order
Pick(u, S) == LET idx == Sorted(S) IN [k \in 1..Len(idx) |-> u[idx[k]]]

\* a table in storage order and in the opposite order
Orders(t) == IF Len(t) > 1 THEN {t, Reverse(t)} ELSE {t}

\* the interface tables of at most MaxRows base rows
BaseTables ==
    {Map(BaseRow, Pick(Identities, S)) :
        S \in {T \in SUBSET (1..Len(Identities)) : Cardinality(T) <= MaxRows}}

Lldp(host, name, peerHost, peerName) ==
    [namespace |-> Ns, hostname |-> host, ifname |-> name,
     peerHostname |-> peerHost, peerIfname |-> peerName]

\* what LLDP may report on port eth0 of host: nothing, a port of the other
\* polled device, a port of the device h3 that is not polled, no peering
LldpOf(host, other) ==
    {<<>>,
     <<Lldp(host, Eth0, other, Eth0)>>,
     <<Lldp(host, Eth0, other, Eth1)>>,
     <<Lldp(host, Eth0, "h3", Eth0)>>,
     <<Lldp(host, Eth0, "", DashName)>>}

LldpTables == {a \o b : a \in LldpOf("h1", "h2"), b \in LldpOf("h2", "h1")}

Tables(ifs, pm_list, vlan, lldp, mlag) ==
    [ifs |-> ifs, pm_list |-> pm_list, vlan |-> vlan, lldp |-> lldp, mlag |-> mlag]

AssertArgs(result, imp, state) ==
    [result |-> result, ignore_missing_peer |-> imp, state |-> state, type |-> {}]

ResultArgs == {"all", "pass", "fail"}

\* the state in which call o starts on the snapshot tables
Start(o, tables, a) ==
    /\ op = o /\ inp = tables /\ args = a
    /\ pc = "start"
    /\ df = EmptyFrame
    /\ combined_df = <<>>
    /\ ret = EmptyFrame

\* interface names, subinterfaces and LLDP reports vary; attributes do not
StructCalls ==
    \E t \in BaseTables, l \in LldpTables, r \in ResultArgs, i \in BOOLEAN :
        Start("assert", Tables(t, <<>>, <<>>, l, <<>>), AssertArgs(r, i, ""))

\* the types of a port and of its unit 0, and the order of the table, vary
TypeCalls ==
    \E pt \in {"ethernet", "bond"}, st \in {"subinterface", "vlan"},
       l \in LldpTables, r \in ResultArgs :
        \E t \in Orders(<<[type |-> pt] @@ BaseRow(Id("h1", Eth0)),
                          [type |-> st] @@ BaseRow(Id("h1", <<"eth0", "0">>)),
                          BaseRow(Id("h2", Eth0))>>) :
            Start("assert", Tables(t, <<>>, <<>>, l, <<>>), AssertArgs(r, FALSE, ""))

\* LLDP reports two neighbours on port eth0 of h1
DupCalls ==
    \E r \in ResultArgs, i \in BOOLEAN :
        \E t \in Orders(Map(BaseRow, <<Id("h1", Eth0), Id("h2", Eth0), Id("h2", Eth1)>>)) :
            Start("assert",
                  Tables(t, <<>>, <<>>,
                         <<Lldp("h1", Eth0, "h2", Eth0), Lldp("h1", Eth0, "h2", Eth1)>>,
                         <<>>),
                  AssertArgs(r, i, ""))

IdNs(ns, host, name) == [namespace |-> ns, hostname |-> host, ifname |-> name]

GetIdentities ==
    <<Id("h1", Eth0), Id("h1", Eth1), Id("h2", Eth0), Id("h2", Eth1),
      IdNs("ns2", "h1", Eth0)>>

GetArgs(columns, vlan) ==
    [columns |-> columns, type |-> {}, state |-> "", vlan |-> vlan, portmode |-> {}]

ColumnArgs == {{"*"}, {"ifname", "state"}}

\* what the stored record of one interface may look like to _add_portmode
PortmodeProfiles ==
    {<<>>,
     [ipAddressList |-> <<Ip_10_0_0_1>>],
     [ip6AddressList |-> <<"fe80::1">>],
     [adminState |-> "down", state |-> "down"],
     [adminState |-> "down", state |-> "down", ipAddressList |-> <<Ip_10_0_0_1>>],
     [type |-> "vxlan", ipAddressList |-> <<Ip_10_0_0_1>>]}

\* what the Port-Role Extractor may say of one interface
PmOf(id) ==
    {<<>>,
     <<[portmode |-> "access", vlan |-> 10] @@ id>>,
     <<[portmode |-> "trunk", vlan |-> 1] @@ id>>}

IdSeqs(u, n) ==
    {Pick(u, S) : S \in {T \in SUBSET (1..Len(u)) : Cardinality(T) <= n}}

\* every assignment of one element of Of(id) to each id of ids
Assign(ids, Of(_)) ==
    {f \in [1..Len(ids) -> UNION {Of(ids[k]) : k \in 1..Len(ids)}] :
        \A k \in 1..Len(ids) : f[k] \in Of(ids[k])}

\* addresses, admin state and config-derived port roles vary
PortmodeCalls ==
    \E ids \in IdSeqs(SubSeq(GetIdentities, 1, 3), MaxRows - 1) :
        \E prof \in [1..Len(ids) -> PortmodeProfiles],
           pm \in Assign(ids, PmOf),
           c \in ColumnArgs :
            Start("get",
                  Tables([k \in 1..Len(ids) |-> prof[k] @@ BaseRow(ids[k])],
                         Concat(pm), <<>>, <<>>, <<>>),
                  GetArgs(c, {}))

Vlan(id, v, members) ==
    [namespace |-> id.namespace, hostname |-> id.hostname, vlan |-> v,
     interfaces |-> members]

\* the VLAN table of the devices of ids: VLAN 10 with any of the interfaces
\* as members, VLAN 20 with all of them or absent
Devices(ids) == {[namespace |-> i.namespace, hostname |-> i.hostname] : i \in Range(ids)}

DeviceOrder(ids) ==
    SelectSeq(ids, LAMBDA i : \A k \in 1..Len(ids) :
        (ids[k].namespace = i.namespace /\ ids[k].hostname = i.hostname
         /\ ids[k] # i) => \E m \in 1..Len(ids) : m < k /\ ids[m] = i)

NamesOn(ids, d, S) ==
    Map(LAMBDA i : i.ifname,
        SelectSeq(ids, LAMBDA i : i \in S /\ i.namespace = d.namespace
                                  /\ i.hostname = d.hostname))

VlanTable(ids, in10, with20) ==
    LET devs == DeviceOrder(ids)
        Rows(d) ==
            (IF NamesOn(ids, d, in10) # <<>>
             THEN <<Vlan(d, 10, NamesOn(ids, d, in10))>> ELSE <<>>)
            \o (IF with20 THEN <<Vlan(d, 20, NamesOn(ids, d, Range(ids)))>> ELSE <<>>)
    IN  Concat(Map(Rows, devs))

PmTables(ids) ==
    {<<>>,
     Map(LAMBDA i : [portmode |-> "trunk", vlan |-> 1] @@ i, ids),
     <<[portmode |-> "trunk", vlan |-> 1] @@ ids[1]>>}

\* pvids, VLAN membership, port roles and the vlan filter vary
VlanCalls ==
    \E ids \in IdSeqs(GetIdentities, MaxRows) \ {<<>>} :
        \E pvid \in [1..Len(ids) -> {1, 10}],
           pm \in PmTables(ids),
           in10 \in SUBSET Range(ids),
           with20 \in BOOLEAN,
           c \in ColumnArgs,
           v \in {{}, {10}, {20}} :
            Start("get",
                  Tables([k \in 1..Len(ids) |-> [vlan |-> pvid[k]] @@ BaseRow(ids[k])],
                         pm, VlanTable(ids, in10, with20), <<>>, <<>>),
                  GetArgs(c, v))

\* what the stored record of one interface may look like to the rules
RuleProfiles ==
    {<<>>,
     [mtu |-> 9000],
     [speed |-> 10000],
     [adminState |-> "down", state |-> "down"],
     [state |-> "down"],
     [state |-> "down", reason |-> "Link down"],
     [master |-> "bridge"],
     [type |-> "bond_slave", master |-> "bond0"],
     [type |-> "bond"],
     [type |-> "vlan"],
     [ipAddressList |-> <<Ip_10_0_0_1>>],
     [ipAddressList |-> <<Ip_10_0_0_2>>],
     [ipAddressList |-> <<Ip_10_0_1_1>>],
     [ipAddressList |-> <<Ip_10_0_0_5>>]}

\* the link between eth0 of h1 and eth0 of h2
LinkIds == <<Id("h1", Eth0), Id("h2", Eth0)>>

LinkLldp ==
    {<<Lldp("h1", Eth0, "h2", Eth0), Lldp("h2", Eth0, "h1", Eth0)>>,
     <<Lldp("h1", Eth0, "h2", Eth0)>>,
     <<Lldp("h1", Eth0, "h3", Eth0), Lldp("h2", Eth0, "h1", Eth0)>>}

\* the attributes of the two ends of one link, the order of the table and
\* the arguments vary
RuleCalls ==
    \E prof \in [1..2 -> RuleProfiles], l \in LinkLldp,
       r \in ResultArgs, i \in BOOLEAN, st \in {"", "down"} :
        \E t \in Orders([k \in 1..2 |-> prof[k] @@ BaseRow(LinkIds[k])]) :
            Start("assert", Tables(t, <<>>, <<>>, l, <<>>), AssertArgs(r, i, st))

Mlag(host, peerLink) == [namespace |-> Ns, hostname |-> host, peerLink |-> peerLink]

\* h1 without MLAG, and with its end of the link on or off the peer link
MlagCases ==
    {[mlag |-> <<>>, master |-> ""],
     [mlag |-> <<Mlag("h1", "peerlink")>>, master |-> "peerlink"],
     [mlag |-> <<Mlag("h1", "peerlink")>>, master |-> ""]}

\* both ends up, or both administratively down and asked for as such
AdminCases ==
    {[row |-> <<>>, state |-> ""],
     [row |-> [adminState |-> "down", state |-> "down"], state |-> "down"]}

\* port roles, pvids, VLAN membership and MLAG of the two ends of one link
VlanRuleCalls ==
    \E pm \in Assign(LinkIds, PmOf), pvid \in [1..2 -> {1, 10}],
       in10 \in SUBSET Range(LinkIds), with20 \in BOOLEAN,
       m \in MlagCases, ad \in AdminCases, i \in BOOLEAN :
        \E t \in Orders([k \in 1..2 |->
                            [vlan |-> pvid[k]] @@ ad.row
                            @@ (IF k = 1 THEN [master |-> m.master] ELSE <<>>)
                            @@ BaseRow(LinkIds[k])]) :
            Start("assert",
                  Tables(t, Concat(pm), VlanTable(LinkIds, in10, with20),
                         <<Lldp("h1", Eth0, "h2", Eth0), Lldp("h2", Eth0, "h1", Eth0)>>,
                         m.mlag),
                  AssertArgs("all", i, ad.state))

Init == StructCalls \/ TypeCalls \/ DupCalls \/ RuleCalls \/ VlanRuleCalls

Next ==
    \/ AssertGet
    \/ AssertNormalize
    \/ AssertJoin
    \/ AssertRules
    \/ AssertVerdict

Spec == Init /\ [][Next]_vars

InitGet == PortmodeCalls \/ VlanCalls

NextGet ==
    \/ GetFetch
    \/ GetPortmode
    \/ GetVlanlist
    \/ GetQuery
    \/ GetVlanFilter

SpecGet == InitGet /\ [][NextGet]_vars

(***************************************************************************)
(* Properties of _assert_interfaces                                        *)
(***************************************************************************)
Returned == pc = "done"

HasVerdicts == {"result", "assertReason"} \subseteq ret.cols

Dash == ReasonStr("-")

\* C1 as written: in every returned row, assertReason is "-" if and only
\* if result is "pass", whatever ignore_missing_peer is.
C1_DashIffPass ==
    (op = "assert" /\ Returned /\ HasVerdicts) =>
        \A i \in 1..Len(ret.rows) :
            (ret.rows[i].assertReason = Dash) <=> (ret.rows[i].result = "pass")

\* C1 as the code has it: in every returned row that carries a verdict,
\* assertReason "-" implies result "pass", and result "pass" implies that
\* assertReason is "-" or that ignore_missing_peer is set and the reason
\* list starts with "No Peer Found".
C1_DashIffPassUnlessIgnored ==
    (op = "assert" /\ Returned /\ HasVerdicts) =>
        \A i \in 1..Len(ret.rows) :
            LET x == ret.rows[i]
            IN  /\ x.assertReason = Dash => x.result = "pass"
                /\ x.result = "pass" =>
                     \/ x.assertReason = Dash
                     \/ /\ args.ignore_missing_peer
                        /\ Len(x.assertReason.list) > 0
                        /\ x.assertReason.list[1] = "No Peer Found"

\* a call that returned a pass with "-" and a pass that kept its reason
C1_Witness ==
    /\ op = "assert" /\ Returned /\ HasVerdicts
    /\ \E i \in 1..Len(ret.rows) :
          ret.rows[i].result = "pass" /\ ret.rows[i].assertReason = Dash
    /\ \E i \in 1..Len(ret.rows) :
          /\ ret.rows[i].result = "pass"
          /\ ret.rows[i].assertReason = ReasonList(<<"No Peer Found">>)

Judged == op = "assert" /\ pc \in {"verdict", "done"} /\ combined_df # <<>>

MutualPeers(a, b) ==
    /\ a.namespace = b.namespace
    /\ a.peerHostname = b.hostname /\ a.peerIfname = b.ifname
    /\ b.peerHostname = a.hostname /\ b.peerIfname = a.ifname

\* C2: two interfaces that are each other's LLDP peer and agree on MTU,
\* speed, type, portmode, pvid and VLAN set both pass, at any row index.
C2_PeerSymmetry ==
    Judged =>
        \A i, j \in 1..Len(combined_df) :
            LET a == combined_df[i]
                b == combined_df[j]
            IN  (/\ MutualPeers(a, b)
                 /\ a.mtu = b.mtu /\ a.speed = b.speed /\ a.type = b.type
                 /\ a.portmode = b.portmode /\ a.vlan = b.vlan
                 /\ Range(a.vlanList) = Range(b.vlanList))
                => /\ Verdict(a, args.ignore_missing_peer) = "pass"
                   /\ Verdict(b, args.ignore_missing_peer) = "pass"

\* C3: a checked interface whose LLDP peer host is not among the hosts of
\* the dataset gets indexPeer -2 and "Unpolled Peer", not "No Peer Found".
C3_UnpolledPeer ==
    Judged =>
        \A i \in 1..Len(combined_df) :
            LET x == combined_df[i]
            IN  (/\ ~x.skipIfCheck
                 /\ x.peerHostname # ""
                 /\ <<x.namespace, x.peerHostname>> \notin KnownHosts(combined_df))
                => /\ x.indexPeer = -2
                   /\ "Unpolled Peer" \in Range(x.assertReason)
                   /\ "No Peer Found" \notin Range(x.assertReason)

Retrieved == Get(inp, AssertGetArgs(args)).rows

NoDataCase ==
    \/ Retrieved = <<>>
    \/ LldpDf(inp.lldp) = <<>>
    \/ Deduplicated(Concatenated(Normalized(Retrieved), LldpDf(inp.lldp))) = <<>>

\* C4: with nothing retrieved, no LLDP peering or an empty join, every
\* returned row fails with "No data" / "No LLDP peering info", and when
\* only passes were asked for the returned table has no rows.
C4_NoDataShortCircuit ==
    (op = "assert" /\ Returned /\ NoDataCase) =>
        IF args.result # "pass"
        THEN /\ HasVerdicts
             /\ \A i \in 1..Len(ret.rows) :
                   /\ ret.rows[i].result = "fail"
                   /\ ret.rows[i].assertReason \in
                        {ReasonStr("No data"), ReasonStr("No LLDP peering info")}
        ELSE ret.rows = <<>>

Unit0(name) == name \o <<"0">>

\* device rows i (the port P) and j (its unit 0, P.0) of the retrieved set
ReportsBoth(r, i, j) ==
    /\ r[i].namespace = r[j].namespace
    /\ r[i].hostname = r[j].hostname
    /\ Len(r[i].ifname) = 1
    /\ r[j].ifname = Unit0(r[i].ifname)

Normalised == op = "assert" /\ pc = "join"

\* row i of the retrieved set is not in the normalised working set
Removed(i) == \A k \in 1..Len(df.rows) : df.rows[k].index # i - 1

\* C9: when a device reports a port P and P.0, the normalised working set
\* holds exactly one row of that device named P, and it is of type ethernet.
C9_SubifCollapse ==
    Normalised =>
        \A i, j \in 1..Len(Retrieved) :
            ReportsBoth(Retrieved, i, j) =>
                LET rows == {k \in 1..Len(df.rows) : SameIf(df.rows[k], Retrieved[i])}
                IN  /\ Cardinality(rows) = 1
                    /\ \A k \in rows : df.rows[k].type = "ethernet"

\* a device reported P and P.0, and the row of P.0 now stands for P
C9_Witness ==
    /\ Normalised
    /\ \E i, j \in 1..Len(Retrieved) :
          /\ ReportsBoth(Retrieved, i, j)
          /\ Removed(i)
          /\ \E k \in 1..Len(df.rows) :
                /\ df.rows[k].index = j - 1
                /\ df.rows[k].ifname = Retrieved[i].ifname
                /\ df.rows[k].type = "ethernet"

\* C10: a row is removed only if its own device reports the unit-0
\* subinterface of it.
C10_DropsOnlySamePort ==
    Normalised =>
        \A i \in 1..Len(Retrieved) :
            Removed(i) => \E j \in 1..Len(Retrieved) : ReportsBoth(Retrieved, i, j)

(***************************************************************************)
(* Properties of get, _add_portmode and _add_vlanlist                      *)
(***************************************************************************)
VlanFilterReturned == op = "get" /\ pc = "done" /\ args.vlan # {}

IfId(x) == [namespace |-> x.namespace, hostname |-> x.hostname, ifname |-> x.ifname]

\* the interface's pvid or one of its vlanList entries is a filter value
VlanMatches(x, vlans) ==
    x.vlan \in vlans \/ Range(x.vlanList) \cap vlans # {}

\* C5: the vlan filter returns exactly the interfaces whose pvid is a filter
\* value or whose vlanList contains one.
C5_VlanFilterExact ==
    VlanFilterReturned =>
        {IfId(x) : x \in Range(ret.rows)}
            = {IfId(x) : x \in {y \in Range(df.rows) : VlanMatches(y, args.vlan)}}

PortmodeDerived == op = "get" /\ pc = "vlanlist" /\ PortmodeWanted(args)

HasMapping(x) == \E k \in 1..Len(inp.pm_list) : SameIf(inp.pm_list[k], x)

\* C6: an interface without a config-derived mapping is "unknown" when it
\* has neither an IPv4 nor an IPv6 address and "routed" otherwise, whether
\* or not other interfaces of the call have a mapping (stated for the
\* interfaces that are administratively up; C7 speaks for the others).
C6_PortmodeFallback ==
    PortmodeDerived =>
        \A i \in 1..Len(df.rows) :
            LET x == df.rows[i]
            IN  (~HasMapping(x) /\ x.adminState = "up") =>
                    x.portmode = IF x.ipAddressList = <<>> /\ x.ip6AddressList = <<>>
                                 THEN "unknown" ELSE "routed"

\* C7: every interface that is not administratively up has portmode "".
C7_AdminDownEmptyPortmode ==
    PortmodeDerived =>
        \A i \in 1..Len(df.rows) :
            df.rows[i].adminState # "up" => df.rows[i].portmode = ""

VlanlistDerived == op = "get" /\ pc = "query" /\ VlanlistWanted(args)

StrictlyAscending(l) == \A i, j \in 1..Len(l) : i < j => l[i] < l[j]

\* C8: after _add_vlanlist on a non-empty table every row has a vlanList,
\* and it is strictly ascending.
C8_VlanListPresentSorted ==
    VlanlistDerived =>
        /\ "vlanList" \in df.cols
        /\ \A i \in 1..Len(df.rows) : StrictlyAscending(df.rows[i].vlanList)

(***************************************************************************)
(* Properties of the rules and of the verdict                              *)
(***************************************************************************)
\* the call went through the rules and returned its verdicts
VerdictsReturned == op = "assert" /\ Returned /\ combined_df # <<>>

\* the judged row that the returned row r comes from
JudgedRowsOf(r) == {k \in 1..Len(combined_df) : SameIf(combined_df[k], r)}

\* C11: without ignore_missing_peer a returned row fails iff its reason list
\* is not empty; with it, a returned row passes iff its reason list is empty
\* or starts with "No Peer Found".
C11_VerdictRule ==
    VerdictsReturned =>
        \A i \in 1..Len(ret.rows) :
            /\ JudgedRowsOf(ret.rows[i]) # {}
            /\ \A k \in JudgedRowsOf(ret.rows[i]) :
                  LET l == combined_df[k].assertReason
                  IN  IF args.ignore_missing_peer
                      THEN (ret.rows[i].result = "pass")
                             <=> (Len(l) = 0 \/ l[1] = "No Peer Found")
                      ELSE (ret.rows[i].result = "fail") <=> (Len(l) # 0)

\* with ignore_missing_peer, a row that is down and has no peer still fails,
\* and a row whose only reason is the missing peer passes
C11_Witness ==
    /\ VerdictsReturned /\ args.ignore_missing_peer
    /\ \E i \in 1..Len(ret.rows) : \E k \in JudgedRowsOf(ret.rows[i]) :
          /\ combined_df[k].assertReason = <<"Interface Down", "No Peer Found">>
          /\ ret.rows[i].result = "fail"

\* C12: a judged row has the reason "pvid Mismatch" only if its portmode is
\* access or trunk, its peer is resolved (indexPeer >= 0) and its pvid
\* differs from its peer's.
C12_PvidRule ==
    Judged =>
        \A i \in 1..Len(combined_df) :
            LET x == combined_df[i]
            IN  "pvid Mismatch" \in Range(x.assertReason) =>
                    /\ x.portmode \in {"access", "trunk"}
                    /\ x.indexPeer >= 0
                    /\ x.vlan # x.vlanPeer

\* the vlanList of the row of the working set that x.indexPeer names
PeerVlanSets(x) ==
    {Range(df.rows[k].vlanList) : k \in {j \in 1..Len(df.rows) :
                                            df.rows[j].index = x.indexPeer}}

\* C13: a judged row has the reason "VLAN set mismatch" iff it has a peer
\* (indexPeer >= 0, row 0 included), its (namespace, hostname, master) is not
\* an MLAG peer-link key, and its vlanList and its peer's differ as sets.
C13_VlanSetRule ==
    Judged =>
        \A i \in 1..Len(combined_df) :
            LET x == combined_df[i]
            IN  ("VLAN set mismatch" \in Range(x.assertReason))
                <=> (/\ x.indexPeer >= 0
                     /\ <<x.namespace, x.hostname, x.master>>
                            \notin MlagPeerlinks(inp.mlag)
                     /\ PeerVlanSets(x) # {Range(x.vlanList)})

\* the order in which the rules run
ReasonOrder ==
    <<"Interface Down", "No Peer Found", "Unpolled Peer", "MTU mismatch",
      "Speed mismatch", "type mismatch", "portMode Mismatch",
      "IP address mismatch", "pvid Mismatch", "VLAN set mismatch">>

\* l is a subsequence of ReasonOrder, each reason at most once
InReasonOrder(l) ==
    \E pos \in [1..Len(l) -> 1..Len(ReasonOrder)] :
        /\ \A k \in 1..Len(l) : ReasonOrder[pos[k]] = l[k]
        /\ \A j, k \in 1..Len(l) : j < k => pos[j] < pos[k]

\* C14: the reason list of every judged row is a subsequence of the fixed
\* order of the rules, each reason at most once.
C14_ReasonOrder ==
    Judged => \A i \in 1..Len(combined_df) : InReasonOrder(combined_df[i].assertReason)

\* the call returned every row it judged, and there was LLDP data
AllReturned ==
    op = "assert" /\ Returned /\ args.result = "all" /\ LldpDf(inp.lldp) # <<>>

\* C15: with LLDP data and result "all", the returned rows are the
\* (namespace, hostname, ifname) of the normalised working set, once each.
C15_OneVerdictPerInterface ==
    AllReturned =>
        /\ {IfId(r) : r \in Range(ret.rows)}
              = {IfId(x) : x \in Range(Normalized(Retrieved))}
        /\ \A i, j \in 1..Len(ret.rows) :
              SameIf(ret.rows[i], ret.rows[j]) => i = j

\* the joins produced two rows of one interface, the deduplication removed
\* one, and the call returned one verdict for each interface
C15_Witness ==
    /\ AllReturned /\ HasVerdicts
    /\ LET c == Concatenated(df.rows, LldpDf(inp.lldp))
       IN  /\ Len(Deduplicated(c)) < Len(c)
           /\ Len(ret.rows) = Len(Deduplicated(c))
           /\ Len(ret.rows) = Len(df.rows)

\* LLDP reported a port that has no row in the working set
LldpWithoutInterface ==
    /\ AllReturned /\ HasVerdicts
    /\ \E k \in 1..Len(inp.lldp) : \A i \in 1..Len(df.rows) :
          ~LldpMatch(df.rows[i], inp.lldp[k])

====
